---- MODULE Spec2Model ----
(***************************************************************************)
(* Model of src/utils.py (audiolabs/lapped-transforms): the lapped-view     *)
(* algebra (lap, unlap, flatten, lap_like, copy), the in-place row          *)
(* transform, and the integer shift of the MDCT kernel.                     *)
(*                                                                          *)
(* An array is a view [buf, shape, strides] over a buffer of the heap mem;  *)
(* strides are counted in elements (numpy's byte strides divided by the     *)
(* item size) and every view starts at element 0 of its buffer.  The view   *)
(* constructors of the source are numpy's as_strided, which checks nothing  *)
(* but the sign of the dimensions; a read through a view past the end of    *)
(* its buffer is undefined behaviour and is modelled as a nondeterministic  *)
(* choice between a garbage value and a crash.                              *)
(***************************************************************************)
EXTENDS Integers, Sequences, FiniteSets, TLC

\* ------------------------------------------------------------------ bounds
MaxR == 4        \* rows (frames) of the framed input
MaxC == 2        \* columns (frame length) of the framed input
MaxL == 3        \* overlap factors 1..MaxL
MaxSeed == 1     \* the input holds seed+1, seed+2, ... (all cells distinct)
MaxOps == 3      \* calls made on the array in one run
MaxGarbage == 1  \* values an out-of-bounds read may produce: 0..MaxGarbage
MaxN == 5        \* mdct sizes 1..MaxN

VARIABLES
    mem,      \* the heap: a sequence of buffers, each a sequence of numbers
    x,        \* the caller's framed array, a view of buffer 1
    seed,     \* first value of the input (history: the original contents)
    L,        \* the overlap factor the caller uses in this run
    cur,      \* the array returned by the last call (x before any call)
    prev,     \* the array the last call was given
    snap,     \* the heap before the last call
    trace,    \* the calls made so far
    err,      \* "none", or the exception / crash that ended the run
    oob,      \* TRUE once a call has read or written past the end of a buffer
    wpos,     \* <<i, j, w>>: the caller's last write, cur[i, j] = w
    T,        \* the matrix given to transform
    row,      \* transform's loop index i; -1 outside the loop
    rd,       \* the vector x[i, :] transform read in its last step
    wr,       \* the vector transform wrote in its last step
    prevwr,   \* the vector transform wrote in the step before
    order,    \* the row indices transform has processed, in order
    kernel    \* the result of mdct: [N, M, shift, phase]

vars == <<mem, x, seed, L, cur, prev, snap, trace, err, oob, wpos,
          T, row, rd, wr, prevwr, order, kernel>>

\* ------------------------------------------------------------- numpy views
Rows(v) == v.shape[1]
Cols(v) == v.shape[2]

\* A C-contiguous 2-D array over buffer b (what ndarray.copy() returns).
Contig(b, r, c) == [buf |-> b, shape |-> <<r, c>>, strides |-> <<c, 1>>]

\* The cell (0-based) that element (i, j) of a view addresses.
Addr(v, i, j) == i * v.strides[1] + j * v.strides[2]

InBuf(m, v, i, j) == Addr(v, i, j) < Len(m[v.buf])

\* The coordinates of a 2-D view.
Coords(v) == (0 .. Rows(v) - 1) \X (0 .. Cols(v) - 1)

\* Some element of the view lies past the end of its buffer.
ReachesPast(m, v) == \E p \in Coords(v) : ~InBuf(m, v, p[1], p[2])

\* Reading v[i, j]: the cell's value, or g when the cell is out of bounds.
ReadAt(m, v, i, j, g) ==
    IF InBuf(m, v, i, j) THEN m[v.buf][Addr(v, i, j) + 1] ELSE g

\* ndarray.copy(): the elements of the view in row-major order.
CopyData(m, v, g) ==
    [p \in 1 .. Rows(v) * Cols(v) |->
        ReadAt(m, v, (p - 1) \div Cols(v), (p - 1) % Cols(v), g)]

\* np.lib.stride_tricks.as_strided(a, shape=, strides=): same buffer, no check
\* other than "negative dimensions are not allowed" (see DimsOK).
AsStrided(a, shape, strides) ==
    [buf |-> a.buf, shape |-> shape, strides |-> strides]

DimsOK(shape) == \A k \in DOMAIN shape : shape[k] >= 0

\* ------------------------------------------------------------ lap / unlap
LapShapeNoOverlapRows(a, l) == <<a.shape[1], a.shape[2] * l>>
LapShape(a, l) == <<a.shape[1] - l + 1, a.shape[2] * l>>

UnlapShapeNoRows(a, l) == <<a.shape[1], a.shape[2] \div l>>
UnlapShapeKeepCols(a, l) == <<a.shape[1] + l - 1, a.shape[2]>>
UnlapShape(a, l) == <<a.shape[1] + l - 1, a.shape[2] \div l>>

\* The view unlap builds before its optional copy.
UnlapView(a, l) == AsStrided(a, UnlapShape(a, l), a.strides)

\* a.copy(): a fresh C-contiguous buffer at the end of the heap.
Copied(m, a, g) ==
    [heap |-> Append(m, CopyData(m, a, g)),
     src |-> Contig(Len(m) + 1, Rows(a), Cols(a))]

\* lap's "if copy: x = x.copy()": the heap and the array that is re-strided.
LapTakeAlwaysCopy(m, a, c, g) == Copied(m, a, g)
LapTake(m, a, c, g) == IF c THEN Copied(m, a, g) ELSE [heap |-> m, src |-> a]

\* A call as logged in trace; pre records whether the shape precondition the
\* documentation states for the call held when it was made.
Op(o, l, c, ok) == [op |-> o, L |-> l, copy |-> c, pre |-> ok]

Garbage == 0 .. MaxGarbage

\* The input: R*C distinct values in row-major order.
Fill(s, n) == [p \in 1 .. n |-> s + p]

R == x.shape[1]
C == x.shape[2]
X0 == Fill(seed, R * C)

Running == err = "none" /\ row = -1 /\ Len(trace) < MaxOps
TwoD(v) == Len(v.shape) = 2
LastOp == IF trace = <<>> THEN "" ELSE trace[Len(trace)].op

\* Only views have been built so far: the run is a chain of lap and unlap.
ViewChain == \A k \in 1 .. Len(trace) : trace[k].op \in {"lap", "unlap"}

Init ==
    /\ \E r \in 1 .. MaxR, c \in 1 .. MaxC :
         x = Contig(1, r, c)
    /\ seed \in 0 .. MaxSeed
    /\ mem = <<Fill(seed, x.shape[1] * x.shape[2])>>
    /\ L \in 1 .. MaxL
    /\ cur = x
    /\ prev = x
    /\ snap = mem
    /\ trace = <<>>
    /\ err = "none"
    /\ oob = FALSE
    /\ wpos = <<>>
    /\ T = <<>>
    /\ row = -1
    /\ rd = <<>>
    /\ wr = <<>>
    /\ prevwr = <<>>
    /\ order = <<>>
    /\ kernel = [N |-> 0, M |-> 0, shift |-> 0, phase |-> <<>>]

Quiet ==
    UNCHANGED <<x, seed, L, wpos, T, row, rd, wr, prevwr, order, kernel>>

\* lap(cur, L, copy=c)
Lap(c) ==
    /\ Running /\ ViewChain
    /\ \E g \in Garbage, crash \in BOOLEAN :
        LET past == c /\ ReachesPast(mem, cur)
            src == LapTake(mem, cur, c, g).src
            m2 == LapTake(mem, cur, c, g).heap
            shape == LapShape(src, L)
        IN  /\ crash => past
            /\ oob' = (oob \/ past)
            /\ IF crash THEN
                   /\ err' = "crash"
                   /\ UNCHANGED <<mem, cur>>
               ELSE IF ~DimsOK(shape) THEN
                   /\ err' = "ValueError"
                   /\ UNCHANGED <<mem, cur>>
               ELSE
                   /\ err' = "none"
                   /\ mem' = m2
                   /\ cur' = AsStrided(src, shape, src.strides)
    /\ prev' = cur
    /\ snap' = mem
    /\ trace' = Append(trace, Op("lap", L, c, Rows(cur) >= L))
    /\ Quiet

\* unlap(cur, L, copy=c)
Unlap(c) ==
    /\ Running /\ ViewChain
    /\ \E g \in Garbage, crash \in BOOLEAN :
        LET outval == UnlapView(cur, L)
            past == c /\ ReachesPast(mem, outval)
        IN  /\ crash => past
            /\ oob' = (oob \/ past)
            /\ IF crash THEN
                   /\ err' = "crash"
                   /\ UNCHANGED <<mem, cur>>
               ELSE IF c THEN
                   /\ err' = "none"
                   /\ mem' = Copied(mem, outval, g).heap
                   /\ cur' = Copied(mem, outval, g).src
               ELSE
                   /\ err' = "none"
                   /\ mem' = mem
                   /\ cur' = outval
    /\ prev' = cur
    /\ snap' = mem
    /\ trace' = Append(trace, Op("unlap", L, c, Cols(cur) % L = 0))
    /\ Quiet

WriteTargets == IF TwoD(cur) THEN Coords(cur) ELSE {}

\* The caller stores w into cur[i, j].
Write(i, j, w) ==
    /\ Running /\ TwoD(cur)
    /\ LastOp \in {"lap", "copy"}
    /\ <<i, j>> \in Coords(cur)
    /\ IF InBuf(mem, cur, i, j) THEN
           /\ mem' = [mem EXCEPT ![cur.buf][Addr(cur, i, j) + 1] = w]
           /\ err' = "none"
           /\ oob' = oob
       ELSE
           /\ mem' = mem
           /\ err' \in {"none", "crash"}
           /\ oob' = TRUE
    /\ wpos' = <<i, j, w>>
    /\ snap' = mem
    /\ trace' = Append(trace, Op("write", 0, FALSE, TRUE))
    /\ UNCHANGED <<x, seed, L, cur, prev, T, row, rd, wr, prevwr, order,
                   kernel>>

\* ------------------------------------------------- flatten / lap_like / copy
\* The default of flatten's parameter L.
FlattenDefaultL == 2

\* A 1-D array of n elements over buffer b.
Flat(b, n) == [buf |-> b, shape |-> <<n>>, strides |-> <<1>>]

\* numpy's C-contiguity of a 2-D view (dimensions of size 1 do not count).
IsContig(v) ==
    \/ Rows(v) * Cols(v) = 0
    \/ /\ Cols(v) = 1 \/ v.strides[2] = 1
       /\ Rows(v) = 1 \/ v.strides[1] = Cols(v)

\* lap_like(a, y): a's buffer under y's shape and strides, unchecked.
LapLike(a, y) == AsStrided(a, y.shape, y.strides)

\* The overlap factor copy(x, L) hands to flatten: none, so flatten's default.
CopyFlattenL(l) == FlattenDefaultL

\* flatten(cur, l, copy=c): unlap(cur, l, copy=c).ravel()
Flatten(l, c) ==
    /\ Running /\ TwoD(cur)
    /\ Len(trace) = 1 /\ LastOp = "lap"
    /\ \E g \in Garbage, crash \in BOOLEAN :
        LET outval == UnlapView(cur, l)
            n == Rows(outval) * Cols(outval)
            fresh == c \/ ~IsContig(outval)
            past == fresh /\ ReachesPast(mem, outval)
        IN  /\ crash => past
            /\ oob' = (oob \/ past)
            /\ IF crash THEN
                   /\ err' = "crash"
                   /\ UNCHANGED <<mem, cur>>
               ELSE IF fresh THEN
                   /\ err' = "none"
                   /\ mem' = Append(mem, CopyData(mem, outval, g))
                   /\ cur' = Flat(Len(mem) + 1, n)
               ELSE
                   /\ err' = "none"
                   /\ mem' = mem
                   /\ cur' = Flat(cur.buf, n)
    /\ prev' = cur
    /\ snap' = mem
    /\ trace' = Append(trace, Op("flatten", l, c, Cols(cur) % l = 0))
    /\ Quiet

\* The caller allocates an unlapped array of n elements and calls
\* lap_like(new, cur).
LapLikeCall(n) ==
    /\ Running /\ TwoD(cur)
    /\ Len(trace) = 1 /\ LastOp = "lap"
    /\ LET m2 == Append(mem, Fill(seed, n))
           out == LapLike(Flat(Len(mem) + 1, n), cur)
       IN  /\ mem' = m2
           /\ cur' = out
           /\ trace' = Append(trace,
                  Op("lap_like", n, FALSE, ~ReachesPast(m2, out)))
    /\ err' = "none"
    /\ oob' = oob
    /\ prev' = cur
    /\ snap' = mem
    /\ Quiet

\* copy(cur, L): new = flatten(cur, copy=True); return lap_like(new, cur)
Copy ==
    /\ Running /\ TwoD(cur)
    /\ Len(trace) = 1 /\ LastOp = "lap"
    /\ \E g \in Garbage, crash \in BOOLEAN :
        LET outval == UnlapView(cur, CopyFlattenL(L))
            n == Rows(outval) * Cols(outval)
            past == ReachesPast(mem, outval)
        IN  /\ crash => past
            /\ oob' = (oob \/ past)
            /\ IF crash THEN
                   /\ err' = "crash"
                   /\ UNCHANGED <<mem, cur>>
               ELSE
                   /\ err' = "none"
                   /\ mem' = Append(mem, CopyData(mem, outval, g))
                   /\ cur' = LapLike(Flat(Len(mem) + 1, n), cur)
    /\ prev' = cur
    /\ snap' = mem
    /\ trace' = Append(trace, Op("copy", L, TRUE, TRUE))
    /\ Quiet

\* ---------------------------------------------------------------- transform
\* The matrices the caller passes: K rows, M columns.
TKinds == {"eye", "flip", "ones", "ramp"}

TEntry(kind, k, m, M) ==
    CASE kind = "eye" -> IF k = m THEN 1 ELSE 0
      [] kind = "flip" -> IF k + m = M + 1 THEN 1 ELSE 0
      [] kind = "ones" -> 1
      [] OTHER -> k - 2 * m

TMatrix(kind, K, M) ==
    [k \in 1 .. K |-> [m \in 1 .. M |-> TEntry(kind, k, m, M)]]

RECURSIVE Dot(_, _, _)
Dot(t, v, n) == IF n = 0 THEN 0 ELSE Dot(t, v, n - 1) + t[n] * v[n]

\* T @ v for a 1-D v: defined when T's column count is v's length.
MatVecOK(t, v) == Len(t[1]) = Len(v)
MatVecFirstRow(t, v) == [k \in 1 .. Len(t) |-> Dot(t[1], v, Len(v))]
MatVec(t, v) == [k \in 1 .. Len(t) |-> Dot(t[k], v, Len(v))]

\* x[i, :] = p: p is broadcast to the row's length, so its length must be
\* that length or 1.
AssignOK(p, n) == Len(p) = n \/ Len(p) = 1
Assigned(p, n) == [j \in 1 .. n |-> IF Len(p) = 1 THEN p[1] ELSE p[j]]

\* The heap x[i, :] is read from in iteration i (m: now, s: at the call).
RowSourceAtCall(m, s) == s
RowSource(m, s) == m

RowVec(m, v, i) == [j \in 1 .. Cols(v) |-> m[v.buf][Addr(v, i, j - 1) + 1]]

\* The row transform's loop takes after row i of n.
NextRow(i, n) == IF i + 1 >= n THEN -1 ELSE i + 1

FirstRow(n) == IF n = 0 THEN -1 ELSE 0

CurCols == IF TwoD(cur) THEN Cols(cur) ELSE 1

\* transform(cur, T) is called: "for i in range(len(x))" starts.
TransformStart(kind, K, M) ==
    /\ Running /\ TwoD(cur)
    /\ trace = <<>> \/ (Len(trace) = 1 /\ LastOp = "lap")
    /\ ~ReachesPast(mem, cur)
    /\ T' = TMatrix(kind, K, M)
    /\ row' = FirstRow(Rows(cur))
    /\ rd' = <<>>
    /\ wr' = <<>>
    /\ prevwr' = <<>>
    /\ order' = <<>>
    /\ prev' = cur
    /\ snap' = mem
    /\ trace' = Append(trace, Op("transform", 0, FALSE, TRUE))
    /\ UNCHANGED <<mem, x, seed, L, cur, err, oob, wpos, kernel>>

\* One iteration: x[i, :] = T @ x[i, :]
TransformRow ==
    /\ err = "none" /\ row >= 0
    /\ LET vec == RowVec(RowSource(mem, snap), cur, row)
       IN  /\ rd' = vec
           /\ order' = Append(order, row)
           /\ IF MatVecOK(T, vec) /\ AssignOK(MatVec(T, vec), Cols(cur)) THEN
                  LET new == Assigned(MatVec(T, vec), Cols(cur))
                  IN  /\ mem' = [mem EXCEPT ![cur.buf] =
                            [a \in DOMAIN @ |->
                                IF \E j \in 1 .. Cols(cur) :
                                       Addr(cur, row, j - 1) + 1 = a
                                THEN new[CHOOSE j \in 1 .. Cols(cur) :
                                            Addr(cur, row, j - 1) + 1 = a]
                                ELSE @[a]]]
                      /\ wr' = new
                      /\ prevwr' = wr
                      /\ row' = NextRow(row, Rows(cur))
                      /\ err' = "none"
              ELSE
                  /\ err' = "ValueError"
                  /\ row' = -1
                  /\ UNCHANGED <<mem, wr, prevwr>>
    /\ UNCHANGED <<x, seed, L, cur, prev, snap, trace, oob, wpos, T, kernel>>

\* -------------------------------------------------------------------- mdct
\* Python's a // b for b > 0: the floor of the quotient.
PyFloorDiv(a, b) ==
    CHOOSE q \in -(a * a) - 1 .. a * a + 1 : b * q <= a /\ a < b * (q + 1)

\* shift = -N // 2: unary minus binds tighter than //.
MdctShiftNegateLast(n) == -PyFloorDiv(n, 2)
MdctShift(n) == PyFloorDiv(-n, 2)

\* 4N/pi times the cosine's argument at row k, column n:
\* (pi / N) * (n + shift + 1/2) * (k + 1/2).
MdctPhase(shift, k, n) == (2 * (n + shift) + 1) * (2 * k + 1)

\* mdct(n)
Mdct(n) ==
    /\ Running /\ trace = <<>>
    /\ kernel' = [N |-> n, M |-> n * 2, shift |-> MdctShift(n),
                   phase |-> [k \in 0 .. n - 1 |-> [c \in 0 .. n * 2 - 1 |->
                                MdctPhase(MdctShift(n), k, c)]]]
    /\ trace' = Append(trace, Op("mdct", 0, FALSE, TRUE))
    /\ UNCHANGED <<mem, x, seed, L, cur, prev, snap, err, oob, wpos,
                   T, row, rd, wr, prevwr, order>>

Next ==
    \/ \E c \in BOOLEAN : Lap(c)
    \/ \E c \in BOOLEAN : Unlap(c)
    \/ \E p \in WriteTargets, w \in {-1, -2} : Write(p[1], p[2], w)
    \/ \E l \in {FlattenDefaultL, L}, c \in BOOLEAN : Flatten(l, c)
    \/ \E n \in 0 .. Len(mem[1]) : LapLikeCall(n)
    \/ Copy
    \/ \E kind \in TKinds, K \in {1, CurCols, CurCols + 1},
          M \in {CurCols, CurCols + 1} : TransformStart(kind, K, M)
    \/ TransformRow
    \/ \E n \in 1 .. MaxN : Mdct(n)

Spec == Init /\ [][Next]_vars

\* =================================================================== claims
\* The k-th call of the run was op.
Called(k, op) == Len(trace) >= k /\ trace[k].op = op

\* Element (i, j) of the caller's framed array x, as the heap holds it in m.
XAt(m, i, j) == m[x.buf][Addr(x, i, j) + 1]

\* A per-row reference product, independent of the model's Dot.
RECURSIVE RefDot(_, _)
RefDot(t, v) ==
    IF t = <<>> THEN 0 ELSE Head(t) * Head(v) + RefDot(Tail(t), Tail(v))

\* C1: for 1 <= L <= R, lap(x, L) has shape (R - L + 1, C * L), and its
\* element (i, j) addresses buffer cell i*C + j and equals
\* x[i + j div C, j mod C].
C1_LapShapeAndAddressing ==
    (Len(trace) = 1 /\ Called(1, "lap") /\ L <= R) =>
        /\ err = "none"
        /\ cur.shape = <<R - L + 1, C * L>>
        /\ \A p \in Coords(cur) :
            /\ Addr(cur, p[1], p[2]) = p[1] * C + p[2]
            /\ InBuf(mem, cur, p[1], p[2])
            /\ mem[cur.buf][Addr(cur, p[1], p[2]) + 1]
                 = XAt(mem, p[1] + (p[2] \div C), p[2] % C)

C1_Witness ==
    /\ Len(trace) = 1 /\ Called(1, "lap") /\ err = "none"
    /\ L >= 2 /\ R > L /\ C >= 2
    /\ Rows(cur) >= 2

\* C2: for 1 <= L <= R, unlap(lap(x, L), L) has shape (R, C) and equals x
\* element-wise, whatever the copy flags of the two calls.
C2_LapUnlapRoundTrip ==
    (Len(trace) = 2 /\ Called(1, "lap") /\ Called(2, "unlap") /\ L <= R) =>
        /\ err = "none"
        /\ ~oob
        /\ cur.shape = <<R, C>>
        /\ \A p \in Coords(x) :
            /\ InBuf(mem, cur, p[1], p[2])
            /\ mem[cur.buf][Addr(cur, p[1], p[2]) + 1] = XAt(mem, p[1], p[2])
            /\ XAt(mem, p[1], p[2]) = X0[p[1] * C + p[2] + 1]

C2_Witness ==
    /\ Len(trace) = 2 /\ Called(1, "lap") /\ Called(2, "unlap")
    /\ trace[1].copy /\ trace[2].copy
    /\ err = "none" /\ L >= 2 /\ R > L /\ C >= 2
    /\ cur.buf = 3

\* C3: with v = lap(x, L, copy=False), 1 <= L <= R, after v[i, j] = w the
\* element x[i + j div C, j mod C] reads w, every coordinate of v with the
\* same cell index i'*C + j' = i*C + j reads w (at most L of them), and every
\* other element of x is unchanged.
C3_WriteThroughAlias ==
    (/\ Len(trace) = 2 /\ Called(1, "lap") /\ ~trace[1].copy
     /\ Called(2, "write") /\ L <= R) =>
        LET i == wpos[1]
            j == wpos[2]
            w == wpos[3]
            same == {p \in Coords(cur) : p[1] * C + p[2] = i * C + j}
        IN  /\ XAt(mem, i + (j \div C), j % C) = w
            /\ \A p \in same : ReadAt(mem, cur, p[1], p[2], w + 1) = w
            /\ Cardinality(same) <= L
            /\ \A q \in Coords(x) :
                 q # <<i + (j \div C), j % C>> =>
                     XAt(mem, q[1], q[2]) = XAt(snap, q[1], q[2])

C3_Witness ==
    /\ Len(trace) = 2 /\ Called(1, "lap") /\ ~trace[1].copy
    /\ Called(2, "write") /\ L >= 2 /\ L <= R
    /\ Cardinality({p \in Coords(cur) :
                       p[1] * C + p[2] = wpos[1] * C + wpos[2]}) = L
    /\ wpos[1] >= 1

\* C4: for x = lap(f, L), any 1 <= L <= R, copy(x, L) returns r with
\* r.shape = x.shape and r[i, j] = x[i, j] everywhere, over a fresh buffer (a
\* later write to r changes neither x nor f), reading no cell outside x's
\* buffer.
C4_CopyEqualAndIndependent ==
    (Called(1, "lap") /\ Called(2, "copy") /\ L <= R) =>
        /\ err = "none"
        /\ ~oob
        /\ Len(trace) = 2 =>
            /\ cur.shape = prev.shape
            /\ cur.buf \notin {prev.buf, x.buf}
            /\ \A p \in Coords(prev) :
                /\ InBuf(mem, cur, p[1], p[2])
                /\ mem[cur.buf][Addr(cur, p[1], p[2]) + 1]
                     = mem[prev.buf][Addr(prev, p[1], p[2]) + 1]
        /\ (Len(trace) = 3 /\ Called(3, "write")) =>
            /\ mem[prev.buf] = snap[prev.buf]
            /\ mem[x.buf] = snap[x.buf]

\* The row-major linearization of x.
IsLinearizationOfX(v) ==
    /\ v.shape = <<R * C>>
    /\ \A p \in 0 .. R * C - 1 :
         mem[v.buf][p + 1] = XAt(mem, p \div C, p % C)

\* C5 (as stated): for every 1 <= L <= R, flatten(lap(x, L)), flatten's own
\* overlap parameter left at its default, is the row-major linearization of
\* x, of length R*C.
C5_FlattenDefaultLinearizes ==
    (/\ Len(trace) = 2 /\ Called(1, "lap") /\ L <= R
     /\ trace[2] = Op("flatten", FlattenDefaultL, TRUE, trace[2].pre)) =>
        /\ err = "none"
        /\ IsLinearizationOfX(cur)

\* C5 (amended): for every 1 <= L <= R, flatten(lap(x, L), L), flatten given
\* the overlap factor of the lap (its default only when L = 2), is the
\* row-major linearization of x, of length R*C.
C5_FlattenSameLLinearizes ==
    (/\ Len(trace) = 2 /\ Called(1, "lap") /\ L <= R
     /\ trace[2] = Op("flatten", L, TRUE, trace[2].pre)) =>
        /\ err = "none"
        /\ ~oob
        /\ IsLinearizationOfX(cur)

C5_Witness ==
    /\ Len(trace) = 2 /\ Called(1, "lap") /\ Called(2, "flatten")
    /\ trace[2].L = L /\ trace[2].copy /\ err = "none"
    /\ L = 3 /\ R >= L /\ C >= 2
    /\ cur.shape = <<R * C>>

\* transform(x, T) on the plain framed array x, with T of C columns, has
\* returned or raised.
PlainTransformEnded ==
    /\ Len(trace) = 1 /\ Called(1, "transform")
    /\ Len(T[1]) = C
    /\ row = -1

\* Row i of x is T times the original row i.
RowsAreProducts ==
    \A i \in 0 .. R - 1 :
        [j \in 1 .. Cols(cur) |-> XAt(mem, i, j - 1)]
          = [k \in 1 .. Len(T) |->
                RefDot(T[k], [j \in 1 .. C |-> X0[i * C + j]])]

\* C6 (as stated): for T of shape (K, C), every K >= 1, transform(x, T) on a
\* plain x of shape (R, C) completes and leaves x with shape (R, K), row i
\* being T times the original row i.
C6_TransformAnyK ==
    PlainTransformEnded =>
        /\ err = "none"
        /\ cur.shape = <<R, Len(T)>>
        /\ RowsAreProducts

\* C6 (amended): for T of shape (K, C) with K = C, transform(x, T) on a plain
\* x of shape (R, C) completes and leaves x with shape (R, K) = (R, C), row i
\* being T times the original row i.
C6_TransformSquare ==
    (PlainTransformEnded /\ Len(T) = C) =>
        /\ err = "none"
        /\ cur = x
        /\ cur.shape = <<R, Len(T)>>
        /\ order = [i \in 1 .. R |-> i - 1]
        /\ RowsAreProducts

C6_Witness ==
    /\ PlainTransformEnded /\ Len(T) = C /\ err = "none"
    /\ C >= 2 /\ R >= 2
    /\ mem[1] # X0

\* The cells a view of the given shape and strides needs: its highest cell
\* index plus one (0 for an empty view).
CellsNeeded(v) ==
    IF Rows(v) = 0 \/ Cols(v) = 0 THEN 0
    ELSE Addr(v, Rows(v) - 1, Cols(v) - 1) + 1

\* C7: lap fails when R < L, unlap fails when C mod L # 0, lap_like(new, y)
\* fails when new holds fewer elements than y's shape and strides address
\* (and otherwise returns a view of y's shape); a failed call returns no view.
C7_ShapePreconditionsRejected ==
    /\ (Len(trace) = 1 /\ Called(1, "lap") /\ R < L) =>
           err = "ValueError" /\ cur = x
    /\ (Len(trace) = 1 /\ Called(1, "unlap") /\ C % L # 0) =>
           err = "ValueError" /\ cur = x
    /\ (Len(trace) = 2 /\ Called(1, "lap") /\ Called(2, "lap_like")) =>
           IF trace[2].L < CellsNeeded(prev)
           THEN err = "ValueError" /\ cur = prev
           ELSE err = "none" /\ cur.shape = prev.shape

\* C8 (as stated): the shift of mdct(N) is -(N // 2).
C8_ShiftNegatedQuotient ==
    (Len(trace) = 1 /\ Called(1, "mdct")) =>
        kernel.shift = -(kernel.N \div 2)

\* C8 (amended): the shift of mdct(N) is (-N) // 2: N is negated first and
\* then floor-divided by 2, which is -((N + 1) // 2); N = 3 gives -2, N = 5
\* gives -3, and an even N gives -(N // 2).
C8_ShiftFloorOfNegated ==
    (Len(trace) = 1 /\ Called(1, "mdct")) =>
        /\ kernel.shift = -((kernel.N + 1) \div 2)
        /\ 2 * kernel.shift <= -kernel.N
        /\ -kernel.N < 2 * (kernel.shift + 1)
        /\ kernel.N = 3 => kernel.shift = -2
        /\ kernel.N = 5 => kernel.shift = -3
        /\ kernel.N % 2 = 0 => kernel.shift = -(kernel.N \div 2)

C8_Witness ==
    /\ Len(trace) = 1 /\ Called(1, "mdct")
    /\ kernel.N = 3 /\ kernel.shift = -2

\* transform(v, T) runs on v = lap(x, 2, copy=False), R >= 3, T of shape
\* (2C, 2C).
LappedTransform ==
    /\ Len(trace) = 2 /\ Called(1, "lap") /\ ~trace[1].copy
    /\ Called(2, "transform")
    /\ L = 2 /\ R >= 3
    /\ Len(T) = 2 * C /\ Len(T[1]) = 2 * C

\* The reference loop over the flat buffer: for each row in turn, read 2C
\* cells from the current buffer, multiply by T, write them back.
RefStep(b, i) ==
    LET vec == [j \in 1 .. 2 * C |-> b[i * C + j]]
    IN  [a \in 1 .. Len(b) |->
            IF a > i * C /\ a <= i * C + 2 * C
            THEN RefDot(T[a - i * C], vec)
            ELSE b[a]]

RECURSIVE RefLoop(_, _, _)
RefLoop(b, i, n) == IF i >= n THEN b ELSE RefLoop(RefStep(b, i), i + 1, n)

\* C9: on the lapped view (L = 2, no copy, R >= 3, T square) transform takes
\* the rows in the order 0, 1, ..., R-2; the vector it multiplies at step
\* i+1 holds in columns 0..C-1 what step i wrote into columns C..2C-1 and in
\* columns C..2C-1 the original frame i+2; and the final buffer is that of
\* the reference loop.
C9_RowsFeedForward ==
    LappedTransform =>
        /\ err = "none"
        /\ order = [k \in 1 .. Len(order) |-> k - 1]
        /\ Len(order) <= R - 1
        /\ row = -1 <=> Len(order) = R - 1
        /\ row # -1 => row = Len(order)
        /\ mem[x.buf] = RefLoop(X0, 0, Len(order))
        /\ Len(order) >= 2 =>
             LET i == order[Len(order)]
             IN  \A j \in 1 .. C :
                    /\ rd[j] = prevwr[C + j]
                    /\ rd[C + j] = X0[(i + 1) * C + j]

C9_Witness ==
    /\ LappedTransform /\ err = "none" /\ row = -1
    /\ Len(order) = R - 1 /\ C >= 2
    /\ \E j \in 1 .. C : rd[j] # X0[order[Len(order)] * C + j]

\* C10: after any sequence of lap(., L, copy=False) / unlap(., L, copy=False)
\* calls with one L >= 2, each meeting its stated precondition, the row
\* stride is still C and every coordinate (i, j) of the current view
\* addresses cell i*C + j inside 0 .. R*C - 1.
C10_ChainStaysInBuffer ==
    (/\ L >= 2
     /\ \A k \in 1 .. Len(trace) :
          trace[k].op \in {"lap", "unlap"} /\ ~trace[k].copy /\ trace[k].pre) =>
        /\ err = "none"
        /\ cur.strides[1] = C
        /\ \A p \in Coords(cur) :
            /\ Addr(cur, p[1], p[2]) = p[1] * C + p[2]
            /\ Addr(cur, p[1], p[2]) \in 0 .. R * C - 1
====
